---- MODULE Spec2Model ----
(***************************************************************************)
(* Poseidon endpoint lifecycle engine (poseidon/main.py): the registry of  *)
(* endpoints shared by the main loop (Monitor.process) and the scheduler   *)
(* worker (schedule_job_kickurl, schedule_job_reinvestigation), the        *)
(* snapshot kept in Redis, and the instructions sent to the controller.    *)
(***************************************************************************)
EXTENDS Integers, Sequences, FiniteSets, TLC

\* ------------------------------------------------------------------ bounds
Names == {"e1", "e2"}   \* location hashes the controller can report
MaxMsgs == 1            \* bus messages explored, with one controller poll
MaxPolls == 2           \* controller polls explored, with MaxTicks clock ticks
MaxTicks == 1           \* seconds that pass in the run with MaxPolls polls
MaxWait == 3            \* seconds that pass in the run that reaches the timeout
MaxFaults == 1          \* controller or Redis failures in the run that has some
MaxPushes == 2          \* push events in the run that has some
MaxSignals == 1         \* SIGINTs in the run that has some

\* ------------------------------------------------- configuration (Config())
max_concurrent_reinvestigations == 1
reinvestigation_frequency == 1

None == "None"          \* Python's None
ERR == "MachineError"   \* an illegal trigger raises
NO_DATA == "NO_DATA"    \* poseidon.constants.NO_DATA, the no-data marker

\* poseidon.helpers.endpoint.MACHINE_IP_FIELDS: each IP field of an
\* observation and the fields that depend on it
MACHINE_IP_FIELDS ==
    [ipv4 |-> {"ipv4_rdns", "ipv4_subnet"}, ipv6 |-> {"ipv6_rdns", "ipv6_subnet"}]
IpKeys == {"ipv4", "ipv6"} \cup MACHINE_IP_FIELDS.ipv4 \cup MACHINE_IP_FIELDS.ipv6
FieldOf(key) == CHOOSE f \in {"ipv4", "ipv6"} : key \in {f} \cup MACHINE_IP_FIELDS[f]

\* the IP part of an observation that has no address
NoIp == [key \in IpKeys |-> IF key \in {"ipv4", "ipv6"} THEN "" ELSE NO_DATA]

States == {"known", "unknown", "mirroring", "inactive", "abnormal",
           "shutdown", "reinvestigating", "queued"}
MirrorClass == {"mirroring", "reinvestigating"}

VARIABLES
    endpoints,       \* SDNConnect.endpoints: the registry, in insertion order
    store,           \* Redis key p_endpoints: the last snapshot written
    investigations,  \* SDNConnect.investigations
    sdnc,            \* SDNConnect.sdnc: TRUE iff a controller is configured
    now,             \* int(time.time())
    pcMain,          \* where the main thread is
    pcSched,         \* where the scheduler worker is
    mirrored,        \* the endpoints the controller was last told to mirror
    msgs,            \* bus messages still to come
    polls,           \* controller polls still to come
    ticks,           \* clock ticks still to come
    pending,         \* the history entry find_new_machines has built, not yet appended
    faults,          \* failures of the controller or of Redis still to come
    stop,            \* CTRL_C['STOP']
    jobs,            \* schedule.jobs: the periodic jobs, in the order they were added
    m_queue,         \* Monitor.m_queue: the routing keys of the queued messages
    faucet_event,    \* Monitor.faucet_event: for each push event of the batch,
                     \* whether a controller poll has been given it
    cleared,         \* whether shutdown() has called clear_filters()
    pushes,          \* push events still to come
    signals          \* SIGINTs still to come

vars == <<endpoints, store, investigations, sdnc, now, pcMain, pcSched, mirrored,
          msgs, polls, ticks, pending, faults, stop, jobs, m_queue, faucet_event,
          cleared, pushes, signals>>

\* ------------------------------------------------ Endpoint (helpers/endpoint)
\* The endpoint state machine: the state an event leads to, or ERR.
Trigger(s, ev) ==
    CASE ev = "inactive" -> "inactive"
      [] ev = "shutdown" -> "shutdown"
      [] ev \in {"unknown", "known", "abnormal"} ->
            IF s = "shutdown" THEN ERR ELSE ev
      [] ev = "queue" -> IF s = "unknown" THEN "queued" ELSE ERR
      [] ev = "mirror" -> IF s = "queued" THEN "mirroring" ELSE ERR
      [] ev = "reinvestigate" ->
            IF s \in {"queued", "known", "abnormal"} THEN "reinvestigating" ELSE ERR
      [] OTHER -> ERR

\* p_prev_states is only ever appended to and read at [-1]: the model keeps
\* its length and its last entry.
EmptyHist == [len |-> 0, last |-> <<None, 0>>]
HistAppend(h, entry) == [len |-> h.len + 1, last |-> entry]

\* endpoint_factory(h): a fresh endpoint, state unknown, nothing recorded.
endpoint_factory(h) ==
    [name |-> h, state |-> "unknown", ignore |-> FALSE, next |-> None,
     hist |-> EmptyHist, active |-> 0, ip |-> NoIp]

\* Endpoint.encode() and EndpointDecoder(...).get_endpoint(): the serialized
\* form carries the fields of the p_endpoints schema.
encode(e) ==
    [name |-> e.name, state |-> e.state, ignore |-> e.ignore,
     endpoint_data |-> [active |-> e.active, ip |-> e.ip], next_state |-> e.next,
     prev_states |-> e.hist]

EndpointDecoder(p) ==
    [name |-> p.name, state |-> p.state, ignore |-> p.ignore, next |-> p.next_state,
     hist |-> p.prev_states, active |-> p.endpoint_data.active,
     ip |-> p.endpoint_data.ip]

\* ------------------------------------------------------------------ helpers
\* endpoint.<event>(); endpoint.p_prev_states.append((endpoint.state, now))
Moved(e, s, t) == [e EXCEPT !.state = s, !.hist = HistAppend(@, <<s, t>>)]

NamesOf(reg) == {reg[i].name : i \in DOMAIN reg}
Idx(reg, n) == CHOOSE i \in DOMAIN reg : reg[i].name = n
Count(reg, S) == Cardinality({i \in DOMAIN reg : reg[i].state \in S})

\* get_stored_endpoints() replaces every Endpoint object of the registry: an
\* append still to be made goes to an object the registry no longer holds.
NoPending == [name |-> None, entry |-> <<None, 0>>, live |-> FALSE]
Orphaned(pend) == [pend EXCEPT !.live = FALSE]

\* ------------------------------------------------------------- persistence
\* SDNConnect.store_endpoints: p_endpoints := the encoding of every endpoint.
store_endpoints(reg) == [i \in DOMAIN reg |-> encode(reg[i])]

\* SDNConnect.get_stored_endpoints: the registry decoded from p_endpoints.
get_stored_endpoints(snap) == [i \in DOMAIN snap |-> EndpointDecoder(snap[i])]

\* default_one with the hint of a queued endpoint forgotten
default_one_without_queue_hint(e, t) ==
    IF ~e.ignore /\ e.state # "inactive"
    THEN LET hint == CASE e.state = "mirroring" -> "mirror"
                       [] e.state = "reinvestigating" -> "reinvestigate"
                       [] e.state \in {"known", "abnormal"} -> e.state
                       [] OTHER -> e.next
         IN Moved([e EXCEPT !.next = hint, !.active = 0], Trigger(e.state, "inactive"), t)
    ELSE e

\* SDNConnect.default_endpoints, the loop body for one endpoint.
default_one(e, t) ==
    IF ~e.ignore /\ e.state # "inactive"
    THEN LET hint == CASE e.state = "mirroring" -> "mirror"
                       [] e.state = "reinvestigating" -> "reinvestigate"
                       [] e.state = "queued" -> "queue"
                       [] e.state \in {"known", "abnormal"} -> e.state
                       [] OTHER -> e.next
         IN Moved([e EXCEPT !.next = hint, !.active = 0], Trigger(e.state, "inactive"), t)
    ELSE e

default_endpoints(snap, t) ==
    LET reg == get_stored_endpoints(snap)
    IN [i \in DOMAIN reg |-> default_one(reg[i], t)]

\* ------------------------------------------------------------- reconciler
\* ipaddress.ip_address(raw), as a string: the address in its canonical form,
\* or None where it raises ValueError
ip_address(raw) ==
    CASE raw \in {"10.0.0.9", "10.0.0.10", "::1"} -> raw
      [] raw = "::0001" -> "::1"
      [] OTHER -> None

\* str(ipaddress.ip_network(ip).supernet(new_prefix=MACHINE_IP_PREFIXES[f]))
supernet(ip) ==
    CASE ip \in {"10.0.0.9", "10.0.0.10"} -> "10.0.0.0/24"
      [] ip = "::1" -> "::/64"
      [] OTHER -> NO_DATA

\* SDNConnect._parse_machine_ip: the IP fields of observation m and the
\* fields derived from them (m.rdns: what get_rdns_lookup answers)
_parse_machine_ip(m) ==
    [key \in IpKeys |->
        LET f == FieldOf(key)
            machine_ip == ip_address(m[f])
        IN IF machine_ip = None
           THEN (IF key = f THEN "" ELSE NO_DATA)
           ELSE CASE key = f -> machine_ip
                  [] key \in {"ipv4_rdns", "ipv6_rdns"} -> m.rdns
                  [] OTHER -> supernet(machine_ip)]

\* merge_machine_ip with the stored address forgotten
merge_machine_ip_overwriting(old_machine, new_machine) == new_machine

\* SDNConnect.merge_machine_ip: new_machine after the merge
merge_machine_ip(old_machine, new_machine) ==
    [key \in IpKeys |->
        IF new_machine[FieldOf(key)] = "" /\ old_machine[FieldOf(key)] # ""
        THEN old_machine[key] ELSE new_machine[key]]

\* find_new_machines with a second endpoint made for a known name
reconcile_one_always_new(acc, m, t) ==
    [acc EXCEPT !.reg = Append(acc.reg,
          [Moved(endpoint_factory(m.name), "unknown", t)
              EXCEPT !.active = m.active, !.ip = _parse_machine_ip(m)]),
                !.change_acls = TRUE]

\* SDNConnect.find_new_machines, the loop body for one machine: the registry,
\* the instructions issued and change_acls so far, after reconciling
\* observation m.
reconcile_one(acc, m, t) ==
    LET reg == acc.reg IN
    IF m.name \notin NamesOf(reg)
    THEN [acc EXCEPT !.reg = Append(reg,
              [Moved(endpoint_factory(m.name), "unknown", t)
                  EXCEPT !.active = m.active, !.ip = _parse_machine_ip(m)]),
                    !.change_acls = TRUE]
    ELSE LET i == Idx(reg, m.name)
             ep == reg[i]
             machine_ip == merge_machine_ip(ep.ip, _parse_machine_ip(m))
         IN IF (ep.active # m.active \/ ep.ip # machine_ip) /\ ~ep.ignore
            THEN LET e1 == [ep EXCEPT !.active = m.active, !.ip = machine_ip] IN
                 IF ep.state = "inactive" /\ m.active = 1
                 THEN LET ev == IF ep.next \in {"known", "abnormal"} THEN ep.next ELSE "unknown"
                      IN [acc EXCEPT !.reg[i] = Moved(e1, Trigger(ep.state, ev), t),
                                     !.change_acls = TRUE]
                 ELSE IF ep.state # "inactive" /\ m.active = 0
                 THEN LET hint == CASE ep.state = "mirroring" -> "mirror"
                                    [] ep.state = "reinvestigating" -> "reinvestigate"
                                    [] ep.state \in {"known", "abnormal"} -> ep.state
                                    [] OTHER -> ep.next
                      IN [reg |-> [reg EXCEPT ![i] =
                                     Moved([e1 EXCEPT !.next = hint],
                                           Trigger(ep.state, "inactive"), t)],
                          issued |-> IF ep.state \in MirrorClass
                                     THEN acc.issued \cup {<<"unmirror", ep.name>>}
                                     ELSE acc.issued,
                          change_acls |-> TRUE]
                 ELSE [acc EXCEPT !.reg[i] = e1, !.change_acls = TRUE]
            ELSE acc

RECURSIVE reconcile_all(_, _, _, _)
reconcile_all(acc, machines, k, t) ==
    IF k > Len(machines) THEN acc
    ELSE reconcile_all(reconcile_one(acc, machines[k], t), machines, k + 1, t)

\* SDNConnect.find_new_machines up to (not including) store_endpoints().
find_new_machines(reg, machines, t) ==
    reconcile_all([reg |-> reg, issued |-> {}, change_acls |-> FALSE], machines, 1, t)

\* what sdnc.get_endpoints + format_endpoints can return: a list of
\* observations, one per location hash at most (here without addresses)
Machines == [name : Names, active : {0, 1}, ipv4 : {None}, ipv6 : {None},
             rdns : {NO_DATA}]
Polls == {<<>>} \cup {<<m>> : m \in Machines}
           \cup {p \in [1..2 -> Machines] : p[1].name # p[2].name}

\* --------------------------------------------------------------- scheduler
\* x.p_prev_states[-1][1]
LastTs(e) == e.hist.last[2]

\* sorted(queued_endpoints, key=lambda x: x.p_prev_states[-1][1]): the indices
\* S of the registry by ascending last timestamp, ties in registry order.
RECURSIVE sorted_by_ts(_, _)
sorted_by_ts(reg, S) ==
    IF S = {} THEN <<>>
    ELSE LET i == CHOOSE a \in S : \A b \in S :
                     \/ LastTs(reg[a]) < LastTs(reg[b])
                     \/ LastTs(reg[a]) = LastTs(reg[b]) /\ a <= b
         IN <<i>> \o sorted_by_ts(reg, S \ {i})

\* Monitor.process, the queued endpoints the main loop may promote.
queued_endpoints(reg) ==
    sorted_by_ts(reg, {i \in DOMAIN reg :
        ~reg[i].ignore /\ reg[i].state = "queued" /\ reg[i].next # "inactive"})

\* Monitor.process: max(max_concurrent_reinvestigations - investigations, 0)
investigation_budget(inv) ==
    IF max_concurrent_reinvestigations - inv > 0
    THEN max_concurrent_reinvestigations - inv ELSE 0

\* Monitor.process, the promotion loop over queued_endpoints[:budget]; an
\* illegal trigger raises out of the loop (ok = FALSE).
RECURSIVE promote_all(_, _, _, _)
promote_all(acc, order, k, t) ==
    IF k > Len(order) THEN acc
    ELSE LET i == order[k]
             e == acc.reg[i]
             s == Trigger(e.state, e.next)
         IN IF s = ERR THEN [acc EXCEPT !.ok = FALSE]
            ELSE promote_all(
                   [reg |-> [acc.reg EXCEPT ![i] = [Moved(e, s, t) EXCEPT !.next = None]],
                    issued |-> acc.issued \cup {<<"mirror", e.name>>},
                    ok |-> TRUE], order, k + 1, t)

Min(a, b) == IF a < b THEN a ELSE b

promote(reg, inv, t) ==
    LET q == queued_endpoints(reg)
    IN promote_all([reg |-> reg, issued |-> {}, ok |-> TRUE],
                   SubSeq(q, 1, Min(investigation_budget(inv), Len(q))), 1, t)

\* Monitor.process, the loop over every endpoint that ends a pass: queue the
\* unknown ones, time out stale investigations; without a controller, force
\* known.
sweep_one(acc, i, ctl, t) ==
    LET e == acc.reg[i] IN
    IF e.ignore THEN acc
    ELSE IF ctl
    THEN IF e.state = "unknown"
         THEN [acc EXCEPT !.reg[i] =
                  Moved([e EXCEPT !.next = "mirror"], Trigger(e.state, "queue"), t)]
         ELSE IF e.state \in MirrorClass /\ t - LastTs(e) > 2 * reinvestigation_frequency
         THEN [acc EXCEPT !.reg[i] = Moved(e, Trigger(e.state, "unknown"), t),
                          !.issued = @ \cup {<<"unmirror", e.name>>}]
         ELSE acc
    ELSE IF e.state # "known"
         THEN IF Trigger(e.state, "known") = ERR
              THEN [acc EXCEPT !.ok = FALSE]
              ELSE [acc EXCEPT !.reg[i].state = Trigger(e.state, "known")]
         ELSE acc

RECURSIVE sweep_all(_, _, _, _)
sweep_all(acc, k, ctl, t) ==
    IF k > Len(acc.reg) \/ ~acc.ok THEN acc
    ELSE sweep_all(sweep_one(acc, k, ctl, t), k + 1, ctl, t)

sweep(reg, ctl, t) == sweep_all([reg |-> reg, issued |-> {}, ok |-> TRUE], 1, ctl, t)

\* schedule_job_reinvestigation: the sets of endpoints trigger_reinvestigation
\* can pop: the last n queued ones or, when none is queued, any n of the
\* shuffled known/abnormal ones.
candidates(reg, inv) ==
    LET n == max_concurrent_reinvestigations - inv
        Q == {i \in DOMAIN reg : reg[i].state = "queued"}
        K == {i \in DOMAIN reg : reg[i].state \in {"known", "abnormal"}}
    IN IF n <= 0 THEN {{}}
       ELSE IF Q # {}
       THEN {{i \in Q : Cardinality({j \in Q : j > i}) < n}}
       ELSE {C \in SUBSET K : Cardinality(C) = Min(n, Cardinality(K))}

\* trigger_reinvestigation, for the chosen endpoints C.
trigger_reinvestigation(reg, C, t) ==
    [reg |-> [i \in DOMAIN reg |->
                 IF i \in C THEN Moved(reg[i], Trigger(reg[i].state, "reinvestigate"), t)
                 ELSE reg[i]],
     issued |-> {<<"mirror", reg[i].name>> : i \in C}]

\* -------------------------------------------------------- event dispatcher
\* Monitor.format_rabbit_message, routing key poseidon.algos.decider: the loop
\* over the message's entries. ret: whether ret_val holds the message; stop:
\* an invalid entry was met (break); ok: no trigger raised.
RECURSIVE decider_entries(_, _, _, _)
decider_entries(acc, entries, k, t) ==
    IF k > Len(entries) \/ acc.stop \/ ~acc.ok THEN acc
    ELSE LET m == entries[k] IN
         IF m.name \in NamesOf(acc.reg) /\ m.plugin = "ncapture"
         THEN LET i == Idx(acc.reg, m.name)
                  e == acc.reg[i]
                  s == Trigger(e.state, "unknown")
              IN IF s = ERR THEN [acc EXCEPT !.ok = FALSE]
                 ELSE decider_entries(
                        [reg |-> [acc.reg EXCEPT ![i] = Moved([e EXCEPT !.next = None], s, t)],
                         ret |-> m.valid, stop |-> ~m.valid, ok |-> TRUE],
                        entries, k + 1, t)
         ELSE decider_entries(acc, entries, k + 1, t)

\* whether format_rabbit_message returns the message (a non-empty ret_val)
ret_val(reg, entries) ==
    decider_entries([reg |-> reg, ret |-> FALSE, stop |-> FALSE, ok |-> TRUE],
                    entries, 1, 0).ret

\* Monitor.process, the loop that applies ml_returns (the message's "data")
\* to one endpoint of the registry.
ml_one(acc, i, data, t) ==
    LET e == acc.reg[i] IN
    IF e.name \in DOMAIN data /\ ~e.ignore
    THEN LET ev == IF data[e.name].valid
                   THEN IF data[e.name].behavior = "normal" THEN "known" ELSE "abnormal"
                   ELSE "unknown"
             s == Trigger(e.state, ev)
             un == IF e.state \in MirrorClass
                   THEN acc.issued \cup {<<"unmirror", e.name>>} ELSE acc.issued
         IN IF s = ERR THEN [acc EXCEPT !.issued = un, !.ok = FALSE]
            ELSE [reg |-> [acc.reg EXCEPT ![i] = Moved(e, s, t)], issued |-> un, ok |-> TRUE]
    ELSE acc

RECURSIVE ml_all(_, _, _, _)
ml_all(acc, k, data, t) ==
    IF k > Len(acc.reg) \/ ~acc.ok THEN acc
    ELSE ml_all(ml_one(acc, k, data, t), k + 1, data, t)

\* Monitor.process for a decider message: format_rabbit_message, then the
\* results in msg['data'] applied; a name of the data that is not registered
\* is left in extras, whose loop raises (a key is indexed as a device).
decider(reg, entries, data, t) ==
    LET f == decider_entries([reg |-> reg, ret |-> FALSE, stop |-> FALSE, ok |-> TRUE],
                             entries, 1, t)
        ml_returns == IF f.ret THEN data ELSE <<>>
        r == ml_all([reg |-> f.reg, issued |-> {}, ok |-> f.ok], 1, ml_returns, t)
    IN IF r.ok /\ DOMAIN ml_returns \subseteq NamesOf(r.reg) THEN r
       ELSE [r EXCEPT !.ok = FALSE]

\* Monitor.format_rabbit_message, poseidon.action.ignore / clear.ignored
set_ignore(reg, S, flag) ==
    [i \in DOMAIN reg |-> IF reg[i].name \in S THEN [reg[i] EXCEPT !.ignore = flag]
                          ELSE reg[i]]

\* Monitor.format_rabbit_message, poseidon.action.change for one (name, state)
\* pair; a raising trigger is caught and logged.
change(reg, n, ev, t) ==
    IF n \notin NamesOf(reg) THEN [reg |-> reg, issued |-> {}]
    ELSE LET i == Idx(reg, n)
             e == reg[i]
             s == Trigger(e.state, ev)
             un == IF ev \notin {"mirror", "reinvestigate"} /\ e.state \in MirrorClass
                   THEN {<<"unmirror", n>>} ELSE {}
         IN IF s = ERR THEN [reg |-> reg, issued |-> un]
            ELSE [reg |-> [reg EXCEPT ![i] = Moved([e EXCEPT !.next = None], s, t)],
                  issued |-> IF s \in MirrorClass THEN un \cup {<<"mirror", n>>} ELSE un]

\* the messages the bus can deliver
Entry == [name : Names, plugin : {"ncapture"}, valid : {TRUE},
          behavior : {"normal", "abnormal"}]
           \cup [name : Names, plugin : {"ncapture"}, valid : {FALSE}, behavior : {None}]
           \cup [name : Names, plugin : {"other"}, valid : {TRUE}, behavior : {"normal"}]
EntryLists == {<<>>} \cup {<<m>> : m \in Entry}
                \cup {p \in [1..2 -> Entry] : p[1].name # p[2].name}
Verdict == {[valid |-> TRUE, behavior |-> "normal", source_ip |-> "10.0.0.9"],
            [valid |-> TRUE, behavior |-> "abnormal", source_ip |-> "10.0.0.9"],
            [valid |-> FALSE, behavior |-> None, source_ip |-> "10.0.0.9"]}
DataDicts == {<<>>} \cup UNION {[{n} -> Verdict] : n \in Names}
ChangeEvents == {"mirror", "queue", "known"}

\* ------------------------------------------------------------------- states
Stored(n, s, ig, nx, a) ==
    encode([name |-> n, state |-> s, ignore |-> ig, next |-> nx,
            hist |-> HistAppend(EmptyHist, <<s, 0>>), active |-> a, ip |-> NoIp])

\* snapshots an earlier run can have left in Redis: none; a classified
\* endpoint; an endpoint that was queued and then ignored by the operator; an
\* endpoint under investigation; one ignored while under investigation
StoreKnown == <<Stored("e1", "known", FALSE, None, 1)>>
StoreIgnoredQueued == <<Stored("e1", "queued", TRUE, "mirror", 1)>>
StoreMirroring == <<Stored("e1", "mirroring", FALSE, None, 1)>>
StoreIgnoredMirroring == <<Stored("e1", "mirroring", TRUE, None, 1)>>

\* what the environment does in one explored run: the snapshot found at
\* startup, the clock at startup, and how many messages, polls and clock
\* ticks and failures follow
Quiet == [pushes : {0}, signals : {0}]
Joined(P, Q) == {[f \in DOMAIN p \cup DOMAIN q |-> IF f \in DOMAIN p THEN p[f] ELSE q[f]] :
                    p \in P, q \in Q}

\* runs in which the process is told to stop
StopRuns ==
    [store : {StoreKnown}, now : {1}, msgs : {MaxMsgs}, polls : {0}, ticks : {0},
     faults : {0}, pushes : {0}, signals : {MaxSignals}]
      \cup [store : {StoreKnown}, now : {1}, msgs : {0}, polls : {1}, ticks : {0},
            faults : {MaxFaults}, pushes : {0}, signals : {MaxSignals}]
      \cup [store : {<<>>}, now : {0}, msgs : {0}, polls : {0}, ticks : {MaxTicks},
            faults : {0}, pushes : {1}, signals : {MaxSignals}]

Runs ==
    Joined(
      [store : {<<>>}, now : {0}, msgs : {MaxMsgs}, polls : {1}, ticks : {0}, faults : {0}]
        \cup [store : {StoreKnown, StoreIgnoredQueued}, now : {1}, msgs : {MaxMsgs},
              polls : {1}, ticks : {0}, faults : {0}]
        \cup [store : {<<>>}, now : {0}, msgs : {0}, polls : {MaxPolls}, ticks : {MaxTicks},
              faults : {0}]
        \cup [store : {<<>>}, now : {0}, msgs : {0}, polls : {1}, ticks : {MaxWait},
              faults : {0}]
        \cup [store : {StoreMirroring}, now : {1}, msgs : {0}, polls : {1},
              ticks : {MaxTicks}, faults : {0}]
        \cup [store : {<<>>}, now : {0}, msgs : {0}, polls : {1}, ticks : {0},
              faults : {MaxFaults}]
        \cup [store : {StoreIgnoredMirroring}, now : {MaxWait}, msgs : {0}, polls : {0},
              ticks : {0}, faults : {0}],
      Quiet)
      \cup [store : {<<>>}, now : {0}, msgs : {0}, polls : {1}, ticks : {0}, faults : {0},
            pushes : {MaxPushes}, signals : {0}]
      \cup StopRuns

\* Actions(endpoint, sdnc).mirror_endpoint() / unmirror_endpoint(): what the
\* controller has been told after the instructions of one step; without a
\* controller nothing is told.
Instruct(m, instr, ctl) ==
    IF ctl
    THEN (m \ {n \in Names : <<"unmirror", n>> \in instr})
            \cup {n \in Names : <<"mirror", n>> \in instr}
    ELSE m

Started(runs) ==
    /\ endpoints = <<>>
    /\ investigations = 0
    /\ sdnc \in BOOLEAN
    /\ pcMain = "boot"
    /\ pcSched = "idle"
    /\ mirrored = {}
    /\ \E r \in runs :
          /\ store = r.store
          /\ now = r.now
          /\ msgs = r.msgs
          /\ polls = r.polls
          /\ ticks = r.ticks
          /\ faults = r.faults
          /\ pushes = r.pushes
          /\ signals = r.signals
    /\ pending = NoPending
    /\ stop = FALSE
    /\ jobs = <<>>
    /\ m_queue = <<>>
    /\ faucet_event = <<>>
    /\ cleared = FALSE

Init == Started(Runs)

\* Monitor.__init__: SDNConnect.__init__ (clear_filters(); default_endpoints():
\* load, force inactive, store), then the two periodic jobs are scheduled.
Boot ==
    /\ pcMain = "boot"
    /\ endpoints' = default_endpoints(store, now)
    /\ store' = store_endpoints(endpoints')
    /\ investigations' = 0
    /\ mirrored' = {}
    /\ jobs' = <<"kickurl", "reinvestigation">>
    /\ pcMain' = "get"
    /\ UNCHANGED <<sdnc, now, pcSched, msgs, polls, ticks, pending, faults,
                   stop, m_queue, faucet_event, cleared, pushes, signals>>

\* the clock
Tick ==
    /\ ticks > 0
    /\ ticks' = ticks - 1
    /\ now' = now + 1
    /\ UNCHANGED <<endpoints, store, investigations, sdnc, pcMain, pcSched, mirrored,
                   msgs, polls, pending, faults,
                   stop, jobs, m_queue, faucet_event, cleared, pushes, signals>>

\* ------------------------------------------------------------ bus subscriber
\* rabbit_callback: q.put((routing_key, body)) on the queue.Queue() of
\* Monitor.__init__; the model keeps the kind of routing key ("msg": a decider
\* or operator message, "push": a switch push event) and draws the body when
\* the main loop reads it. The subscribers run from main() until shutdown()
\* closes their connections.
rabbit_callback(q, key) == Append(q, key)

RabbitCallback ==
    /\ pcMain \notin {"boot", "exit", "down"}
    /\ \/ /\ msgs > 0
          /\ msgs' = msgs - 1
          /\ m_queue' = rabbit_callback(m_queue, "msg")
          /\ pushes' = pushes
       \/ /\ pushes > 0
          /\ pushes' = pushes - 1
          /\ m_queue' = rabbit_callback(m_queue, "push")
          /\ msgs' = msgs
    /\ UNCHANGED <<endpoints, store, investigations, sdnc, now, pcMain, pcSched, mirrored,
                   polls, ticks, pending, faults, stop, jobs, faucet_event, cleared,
                   signals>>

\* ---------------------------------------------------------------- main loop
\* the iteration `for job in self.schedule.jobs: self.schedule.cancel_job(job)`:
\* schedule.jobs is the scheduler's own list and cancel_job removes the job
\* from it, so the iteration goes on at position k + 1 of the shortened list.
RECURSIVE cancel_jobs(_, _)
cancel_jobs(js, k) ==
    IF k > Len(js) THEN js
    ELSE cancel_jobs(SubSeq(js, 1, k - 1) \o SubSeq(js, k + 1, Len(js)), k + 1)

\* shutdown() that exits without touching the controller
shutdown_without_clear_filters ==
    /\ mirrored' = mirrored
    /\ cleared' = cleared
    /\ jobs' = cancel_jobs(jobs, 1)
    /\ pcMain' = "down"

\* Monitor.shutdown: clear_filters(), cancel the jobs, close the bus
\* connections, sys.exit()
shutdown ==
    /\ mirrored' = {}
    /\ cleared' = TRUE
    /\ jobs' = cancel_jobs(jobs, 1)
    /\ pcMain' = "down"

\* An exception leaves process(); main() logs it and calls shutdown().
Crashed == shutdown

\* the main loop goes on
Alive ==
    /\ cleared' = cleared
    /\ jobs' = jobs

\* get_q_item: the next message, when the stop flag is not set
Got(key) ==
    /\ pcMain = "get"
    /\ ~stop
    /\ m_queue # <<>>
    /\ Head(m_queue) = key
    /\ m_queue' = Tail(m_queue)

\* what follows format_rabbit_message for every message but a push event:
\* find_new_machines(extra_machines) stores and reloads the registry.
Handled(r) ==
    /\ Got("msg")
    /\ IF r.ok
       THEN /\ store' = store_endpoints(r.reg)
            /\ endpoints' = get_stored_endpoints(store')
            /\ mirrored' = Instruct(mirrored, r.issued, sdnc)
            /\ pcMain' = "promote"
            /\ Alive
       ELSE /\ endpoints' = r.reg
            /\ store' = store
            /\ Crashed
    /\ pending' = IF r.ok THEN Orphaned(pending) ELSE pending
    /\ UNCHANGED <<investigations, sdnc, now, pcSched, msgs, polls, ticks, faults,
                   stop, faucet_event, pushes, signals>>

\* get_q_item finds the queue empty
MainIdle ==
    /\ pcMain = "get"
    /\ ~stop
    /\ m_queue = <<>>
    /\ pcMain' = "promote"
    /\ UNCHANGED <<endpoints, store, investigations, sdnc, now, pcSched, mirrored,
                   msgs, polls, ticks, pending, faults,
                   stop, jobs, m_queue, faucet_event, cleared, pushes, signals>>

\* a push event: self.faucet_event.append(self.format_rabbit_message(item))
MainFaucet ==
    /\ Got("push")
    /\ faucet_event' = Append(faucet_event, FALSE)
    /\ pcMain' = "promote"
    /\ UNCHANGED <<endpoints, store, investigations, sdnc, now, pcSched, mirrored,
                   msgs, polls, ticks, pending, faults, stop, jobs, cleared, pushes,
                   signals>>

\* Monitor.format_rabbit_message, poseidon.action.remove,
\* poseidon.action.remove.ignored and poseidon.action.remove.inactives: the
\* registry without the endpoints of remove_list.
removed(reg, S) == SelectSeq(reg, LAMBDA e : e.name \notin S)

MainRemove ==
    /\ pcMain = "get"
    /\ \E n \in Names :
          Handled([reg |-> removed(endpoints, {n}), issued |-> {}, ok |-> TRUE])

MainRemoveIgnored ==
    /\ pcMain = "get"
    /\ Handled([reg |-> removed(endpoints,
                             {endpoints[i].name : i \in {j \in DOMAIN endpoints :
                                                            endpoints[j].ignore}}),
             issued |-> {}, ok |-> TRUE])

MainRemoveInactives ==
    /\ pcMain = "get"
    /\ Handled([reg |-> removed(endpoints,
                             {endpoints[i].name : i \in {j \in DOMAIN endpoints :
                                                            endpoints[j].state = "inactive"}}),
             issued |-> {}, ok |-> TRUE])

MainDecider ==
    /\ pcMain = "get"
    /\ \E entries \in EntryLists :
          \E data \in IF ret_val(endpoints, entries) THEN DataDicts ELSE {<<>>} :
             Handled(decider(endpoints, entries, data, now))

MainIgnore ==
    /\ pcMain = "get"
    /\ \E n \in Names :
          Handled([reg |-> set_ignore(endpoints, {n}, TRUE), issued |-> {}, ok |-> TRUE])

MainClearIgnored ==
    /\ pcMain = "get"
    /\ \E n \in Names :
          Handled([reg |-> set_ignore(endpoints, {n}, FALSE), issued |-> {}, ok |-> TRUE])

MainChange ==
    /\ pcMain = "get"
    /\ \E n \in Names, ev \in ChangeEvents :
          LET c == change(endpoints, n, ev, now)
          IN Handled([reg |-> c.reg, issued |-> c.issued, ok |-> TRUE])

\* Monitor.process: count the investigations, promote queued endpoints
MainPromote ==
    /\ pcMain = "promote"
    /\ investigations' = Count(endpoints, MirrorClass)
    /\ LET r == promote(endpoints, investigations', now)
       IN /\ endpoints' = r.reg
          /\ IF r.ok
             THEN /\ pcMain' = "sweep"
                  /\ mirrored' = Instruct(mirrored, r.issued, sdnc)
                  /\ Alive
             ELSE Crashed
    /\ UNCHANGED <<store, sdnc, now, pcSched, msgs, polls, ticks, pending, faults,
                   stop, m_queue, faucet_event, pushes, signals>>

\* Monitor.process: the loop over every endpoint that ends the pass
MainSweep ==
    /\ pcMain = "sweep"
    /\ LET r == sweep(endpoints, sdnc, now)
       IN /\ endpoints' = r.reg
          /\ IF r.ok
             THEN /\ pcMain' = "get"
                  /\ mirrored' = Instruct(mirrored, r.issued, sdnc)
                  /\ Alive
             ELSE Crashed
    /\ UNCHANGED <<store, investigations, sdnc, now, pcSched, msgs, polls, ticks, pending,
                   faults, stop, m_queue, faucet_event, pushes, signals>>

\* Monitor.signal_handler: SIGINT sets the stop flag and calls shutdown(),
\* whose sys.exit() ends the main thread where it stands.
Signal ==
    /\ signals > 0
    /\ signals' = signals - 1
    /\ pcMain \in {"get", "promote", "sweep"}
    /\ stop' = TRUE
    /\ shutdown
    /\ UNCHANGED <<endpoints, store, investigations, sdnc, now, pcSched, msgs, polls, ticks,
                   pending, faults, m_queue, faucet_event, pushes>>

\* ... or shutdown() raises at clear_filters(): signal_handler logs it and
\* returns, and the main loop goes on to its next `while not CTRL_C['STOP']`
SignalFails ==
    /\ signals > 0
    /\ signals' = signals - 1
    /\ faults > 0
    /\ faults' = faults - 1
    /\ pcMain \in {"get", "promote", "sweep"}
    /\ stop' = TRUE
    /\ cleared' = TRUE
    /\ UNCHANGED <<endpoints, store, investigations, sdnc, now, pcMain, pcSched, mirrored,
                   msgs, polls, ticks, pending, jobs, m_queue, faucet_event, pushes>>

\* Monitor.process leaves its loop: store_endpoints(), return; main() calls
\* shutdown()
MainStop ==
    /\ pcMain = "get"
    /\ stop
    /\ store' = store_endpoints(endpoints)
    /\ shutdown
    /\ UNCHANGED <<endpoints, investigations, sdnc, now, pcSched, msgs, polls, ticks,
                   pending, faults, stop, m_queue, faucet_event, pushes, signals>>

\* ---------------------------------------------------------- scheduler worker
\* schedule_thread_worker: `while not CTRL_C['STOP']: schedule.run_pending()`
\* runs a job that is in schedule.jobs
JobsRun(job) ==
    /\ \E k \in DOMAIN jobs : jobs[k] = job
    /\ pcSched = "idle"
    /\ ~stop

\* schedule_thread_worker finds the stop flag set: sys.exit()
StopWorker ==
    /\ pcSched = "idle"
    /\ stop
    /\ pcSched' = "stopped"
    /\ UNCHANGED <<endpoints, store, investigations, sdnc, now, pcMain, mirrored, msgs,
                   polls, ticks, pending, faults, stop, jobs, m_queue, faucet_event, cleared,
                   pushes, signals>>

\* schedule_job_kickurl without a controller: check_endpoints returns at
\* once, del schedule_func.faucet_event[:]
KickNoController ==
    /\ JobsRun("kickurl") /\ ~sdnc
    /\ polls > 0
    /\ polls' = polls - 1
    /\ faucet_event' = <<>>
    /\ UNCHANGED <<endpoints, store, investigations, sdnc, now, pcMain, pcSched, mirrored,
                   msgs, ticks, pending, faults, stop, jobs, m_queue, cleared, pushes,
                   signals>>

\* schedule_job_kickurl: check_endpoints polls the controller and
\* find_new_machines reconciles the registry with the poll. The worker can be
\* preempted between reading the clock for a history entry and appending the
\* entry; the model lets that happen at the append for the last machine of
\* the poll (an endpoint already registered), the other appends are atomic.
Reconcile(polled) ==
    /\ JobsRun("kickurl") /\ sdnc
    /\ polls > 0
    /\ polls' = polls - 1
    /\ faucet_event' = [k \in DOMAIN faucet_event |-> TRUE]
    /\ \E poll \in polled :
          LET r == find_new_machines(endpoints, poll, now)
          IN /\ mirrored' = Instruct(mirrored, r.issued, sdnc)
             /\ \/ /\ endpoints' = r.reg
                   /\ pending' = NoPending
                   /\ pcSched' = "store"
                \/ /\ Len(poll) > 0
                   /\ poll[Len(poll)].name \in NamesOf(endpoints)
                   /\ LET i == Idx(endpoints, poll[Len(poll)].name) IN
                      /\ r.reg[i].hist # endpoints[i].hist
                      /\ endpoints' = [r.reg EXCEPT ![i].hist = endpoints[i].hist]
                      /\ pending' = [name |-> r.reg[i].name, entry |-> r.reg[i].hist.last,
                                     live |-> TRUE]
                   /\ pcSched' = "append"
    /\ UNCHANGED <<store, investigations, sdnc, now, pcMain, msgs, ticks, faults,
                   stop, jobs, m_queue, cleared, pushes, signals>>

KickReconcile ==
    /\ pcSched = "idle"
    /\ Reconcile(Polls)

\* ep.p_prev_states.append(...) of the entry built before the preemption
KickAppend ==
    /\ pcSched = "append"
    /\ endpoints' = IF pending.live
                    THEN [endpoints EXCEPT ![Idx(endpoints, pending.name)].hist =
                                              HistAppend(@, pending.entry)]
                    ELSE endpoints
    /\ pending' = NoPending
    /\ pcSched' = "store"
    /\ UNCHANGED <<store, investigations, sdnc, now, pcMain, mirrored, msgs, polls, ticks,
                   faults,
                   stop, jobs, m_queue, faucet_event, cleared, pushes, signals>>

\* check_endpoints: the poll raises, parsed stays None and
\* find_new_machines(None) raises TypeError out of the job, out of
\* schedule.run_pending() and out of schedule_thread_worker.
KickPollFails ==
    /\ JobsRun("kickurl") /\ sdnc
    /\ polls > 0 /\ faults > 0
    /\ polls' = polls - 1
    /\ faults' = faults - 1
    /\ pcSched' = "dead"
    /\ UNCHANGED <<endpoints, store, investigations, sdnc, now, pcMain, mirrored, msgs,
                   ticks, pending,
                   stop, jobs, m_queue, faucet_event, cleared, pushes, signals>>

\* find_new_machines ends with store_endpoints() ...
KickStore ==
    /\ pcSched = "store"
    /\ store' = store_endpoints(endpoints)
    /\ pcSched' = "reload"
    /\ UNCHANGED <<endpoints, investigations, sdnc, now, pcMain, mirrored, msgs, polls,
                   ticks, pending, faults,
                   stop, jobs, m_queue, faucet_event, cleared, pushes, signals>>

\* ... which, when Redis raises, logs the error and returns;
\* get_stored_endpoints() then loads the snapshot written before, and the job
\* ends with del schedule_func.faucet_event[:]
KickStoreFails ==
    /\ pcSched = "store"
    /\ faults > 0
    /\ faults' = faults - 1
    /\ endpoints' = get_stored_endpoints(store)
    /\ faucet_event' = <<>>
    /\ pcSched' = "idle"
    /\ UNCHANGED <<store, investigations, sdnc, now, pcMain, mirrored, msgs, polls, ticks,
                   pending, stop, jobs, m_queue, cleared, pushes, signals>>

\* ... and get_stored_endpoints(); the job ends with
\* del schedule_func.faucet_event[:]
KickReload ==
    /\ pcSched = "reload"
    /\ endpoints' = get_stored_endpoints(store)
    /\ faucet_event' = <<>>
    /\ pcSched' = "idle"
    /\ UNCHANGED <<store, investigations, sdnc, now, pcMain, mirrored, msgs, polls, ticks,
                   pending, faults, stop, jobs, m_queue, cleared, pushes, signals>>

\* ... which, when Redis raises, logs the error and sets the registry to the
\* empty dict it had prepared
KickReloadFails ==
    /\ pcSched = "reload"
    /\ faults > 0
    /\ faults' = faults - 1
    /\ endpoints' = <<>>
    /\ faucet_event' = <<>>
    /\ pcSched' = "idle"
    /\ UNCHANGED <<store, investigations, sdnc, now, pcMain, mirrored, msgs, polls, ticks,
                   pending, stop, jobs, m_queue, cleared, pushes, signals>>

\* schedule_job_reinvestigation
JobReinvestigation ==
    /\ JobsRun("reinvestigation") /\ sdnc
    /\ \E C \in candidates(endpoints, investigations) :
          LET r == trigger_reinvestigation(endpoints, C, now)
          IN /\ endpoints' = r.reg
             /\ mirrored' = Instruct(mirrored, r.issued, sdnc)
    /\ UNCHANGED <<store, investigations, sdnc, now, pcMain, pcSched, msgs, polls, ticks, pending, faults,
                   stop, jobs, m_queue, faucet_event, cleared, pushes, signals>>

Next ==
    \/ Boot
    \/ Tick
    \/ MainIdle
    \/ MainDecider
    \/ MainIgnore
    \/ MainClearIgnored
    \/ MainChange
    \/ MainRemove
    \/ MainRemoveIgnored
    \/ MainRemoveInactives
    \/ MainFaucet
    \/ MainPromote
    \/ MainSweep
    \/ MainStop
    \/ Signal
    \/ SignalFails
    \/ RabbitCallback
    \/ StopWorker
    \/ KickNoController
    \/ KickReconcile
    \/ KickAppend
    \/ KickPollFails
    \/ KickStore
    \/ KickStoreFails
    \/ KickReload
    \/ KickReloadFails
    \/ JobReinvestigation

Spec == Init /\ [][Next]_vars

\* -------------------------------------------------------- a process stopped
\* the runs in which SIGINT arrives; both threads keep being scheduled
SpecStop ==
    /\ Started(StopRuns)
    /\ [][Next]_vars
    /\ WF_vars(MainPromote \/ MainSweep \/ MainStop)
    /\ WF_vars(KickAppend \/ KickStore \/ KickReload \/ StopWorker)

\* ------------------------------------------- observations with IP addresses
\* the reconciler alone, polling a controller that reports one endpoint with
\* or without addresses, whose reverse lookup answers one of two names
RawV4 == {None, "", "10.0.0.9", "10.0.0.10"}
RawV6 == {None, "::1", "::0001"}
IpMachines == [name : {"e1"}, active : {0, 1}, ipv4 : RawV4, ipv6 : RawV6,
               rdns : {"h1", "h2"}]
IpPolls == {<<m>> : m \in IpMachines}

\* an endpoint with an address that the operator has ignored
IgnoredWithIp ==
    [Moved(endpoint_factory("e1"), "unknown", 0) EXCEPT
        !.ignore = TRUE, !.active = 1,
        !.ip = _parse_machine_ip([name |-> "e1", active |-> 1, ipv4 |-> "10.0.0.9",
                                  ipv6 |-> None, rdns |-> "h1"])]

InitMerge ==
    /\ endpoints \in {<<>>, <<IgnoredWithIp>>}
    /\ store = store_endpoints(endpoints)
    /\ investigations = 0
    /\ sdnc = TRUE
    /\ now = 1
    /\ pcMain = "get"
    /\ pcSched = "idle"
    /\ mirrored = {}
    /\ msgs = 0
    /\ polls = MaxPolls
    /\ ticks = 0
    /\ pending = NoPending
    /\ faults = 0
    /\ stop = FALSE
    /\ jobs = <<"kickurl", "reinvestigation">>
    /\ m_queue = <<>>
    /\ faucet_event = <<>>
    /\ cleared = FALSE
    /\ pushes = 0
    /\ signals = 0

KickReconcileIp ==
    /\ pcSched = "idle"
    /\ Reconcile(IpPolls)

NextMerge ==
    \/ KickReconcileIp
    \/ KickAppend
    \/ KickStore
    \/ KickReload

SpecMerge == InitMerge /\ [][NextMerge]_vars

\* ------------------------------------------- investigations left to time out
\* runs long enough for an investigation to go stale: an endpoint is found
\* by a poll, or a queued one is found in the snapshot and an operator
\* message follows, or the snapshot holds one ignored while it was mirrored
LiveRuns ==
    [store : {<<>>}, now : {0}, msgs : {0}, polls : {1}, ticks : {MaxWait},
     faults : {0}, pushes : {0}, signals : {0}]
      \cup [store : {StoreIgnoredQueued}, now : {1}, msgs : {MaxMsgs}, polls : {0},
            ticks : {MaxWait}, faults : {0}, pushes : {0}, signals : {0}]
      \cup [store : {StoreIgnoredMirroring}, now : {1}, msgs : {0}, polls : {0},
            ticks : {MaxWait}, faults : {0}, pushes : {0}, signals : {0}]

\* Monitor.process, one step of the main loop
MainLoop ==
    \/ MainIdle
    \/ MainIgnore
    \/ MainClearIgnored
    \/ MainChange
    \/ MainPromote
    \/ MainSweep

\* schedule_thread_worker, one step of a job
WorkerLoop ==
    \/ KickReconcile
    \/ KickStore
    \/ KickReload
    \/ JobReinvestigation

NextLive ==
    \/ Boot
    \/ Tick
    \/ RabbitCallback
    \/ MainLoop
    \/ WorkerLoop

\* the clock goes on and both threads keep being scheduled
SpecLive ==
    /\ Started(LiveRuns)
    /\ [][NextLive]_vars
    /\ WF_vars(Tick)
    /\ WF_vars(MainLoop)
    /\ WF_vars(WorkerLoop)

\* ------------------------------------------- a signal while a job is running
\* schedule_job_reinvestigation in two steps: the worker thread can be
\* preempted between the test of the stop flag (line 110) and the rest of
\* the job, which tests it no more
JobCheck ==
    /\ JobsRun("reinvestigation") /\ sdnc
    /\ pcSched' = "job"
    /\ UNCHANGED <<endpoints, store, investigations, sdnc, now, pcMain, mirrored, msgs,
                   polls, ticks, pending, faults, stop, jobs, m_queue, faucet_event,
                   cleared, pushes, signals>>

JobTrigger ==
    /\ pcSched = "job"
    /\ \E C \in candidates(endpoints, investigations) :
          LET r == trigger_reinvestigation(endpoints, C, now)
          IN /\ endpoints' = r.reg
             /\ mirrored' = Instruct(mirrored, r.issued, sdnc)
    /\ pcSched' = "idle"
    /\ UNCHANGED <<store, investigations, sdnc, now, pcMain, msgs, polls, ticks, pending,
                   faults, stop, jobs, m_queue, faucet_event, cleared, pushes, signals>>

\* runs in which a poll finds endpoints and SIGINT arrives
RaceRuns ==
    [store : {<<>>}, now : {0}, msgs : {0}, polls : {1}, ticks : {0}, faults : {0},
     pushes : {0}, signals : {MaxSignals}]

NextRace ==
    \/ Boot
    \/ MainIdle
    \/ MainPromote
    \/ MainSweep
    \/ Signal
    \/ StopWorker
    \/ KickReconcile
    \/ KickStore
    \/ KickReload
    \/ JobCheck
    \/ JobTrigger

SpecRace == Started(RaceRuns) /\ [][NextRace]_vars

\* ------------------------------------------------------ restart of a process
\* the registries a process can hold when it exits (two endpoints at most,
\* each with one history entry written at time 0)
RecoveryHints == {None, "mirror", "known"}
RecoveryEndpoints(n) ==
    {[name |-> n, state |-> s, ignore |-> ig, next |-> nx,
      hist |-> HistAppend(EmptyHist, <<s, 0>>), active |-> a, ip |-> NoIp] :
        s \in States, ig \in BOOLEAN, nx \in RecoveryHints, a \in {0, 1}}
RecoveryRegistries ==
    {<<>>} \cup {<<e>> : e \in RecoveryEndpoints("e1")}
           \cup {<<e>> \o <<f>> : e \in RecoveryEndpoints("e1"), f \in RecoveryEndpoints("e2")}

InitRecovery ==
    /\ endpoints \in RecoveryRegistries
    /\ store = <<>>
    /\ investigations = 0
    /\ sdnc = TRUE
    /\ now = 1
    /\ pcMain = "exit"
    /\ pcSched = "idle"
    /\ mirrored = {}
    /\ msgs = 0
    /\ polls = 0
    /\ ticks = 0
    /\ pending = NoPending
    /\ faults = 0
    /\ stop = FALSE
    /\ jobs = <<>>
    /\ m_queue = <<>>
    /\ faucet_event = <<>>
    /\ cleared = FALSE
    /\ pushes = 0
    /\ signals = 0

\* Monitor.process, after the loop: self.s.store_endpoints(). endpoints stays
\* the registry of the process that exits until the next one loads its own.
ExitStore ==
    /\ pcMain = "exit"
    /\ store' = store_endpoints(endpoints)
    /\ pcMain' = "boot"
    /\ UNCHANGED <<endpoints, investigations, sdnc, now, pcSched, mirrored, msgs, polls,
                   ticks, pending, faults,
                   stop, jobs, m_queue, faucet_event, cleared, pushes, signals>>

NextRecovery ==
    \/ ExitStore
    \/ Boot

SpecRecovery == InitRecovery /\ [][NextRecovery]_vars

\* ------------------------------------------------------------------- claims
StateOf(reg, n) == IF n \in NamesOf(reg) THEN reg[Idx(reg, n)].state ELSE "absent"
Registered(n) == n \in NamesOf(endpoints) /\ n \in NamesOf(endpoints')
Before(n) == endpoints[Idx(endpoints, n)]
After(n) == endpoints'[Idx(endpoints', n)]

\* which operation a step belongs to
DispatchStep == pcMain = "get" /\ m_queue # <<>> /\ Head(m_queue) = "msg"
                  /\ m_queue' = Tail(m_queue)
PromoteStep == pcMain = "promote" /\ pcMain' # "promote"
SweepStep == pcMain = "sweep" /\ pcMain' # "sweep"
KickStep == pcSched = "idle" /\ pcSched' \in {"append", "store"}
ReloadStep == pcSched = "reload" /\ pcSched' = "idle" /\ faults' = faults
JobStep == /\ pcSched = "idle" /\ pcSched' = "idle" /\ pcMain' = pcMain
           /\ now' = now /\ endpoints' # endpoints

\* C1: in every reachable state at most max_concurrent_reinvestigations
\* endpoints are mirroring or reinvestigating.
BudgetInvariant == Count(endpoints, MirrorClass) <= max_concurrent_reinvestigations

\* C2: whenever the periodic reinvestigation job can run and read the
\* investigations counter, the counter equals the number of endpoints that
\* are mirroring or reinvestigating (the main loop recounts before it reads).
CounterIsCurrent ==
    (JobsRun("reinvestigation") /\ sdnc) =>
        investigations = Count(endpoints, MirrorClass)

ActiveStateConsistency ==
    [][ReloadStep =>
         \A i \in DOMAIN endpoints' :
            ~(endpoints'[i].active = 0
                /\ endpoints'[i].state \in MirrorClass \cup {"queued"})]_vars

\* C5: whenever the main loop or the periodic job promotes a queued endpoint,
\* no other non-ignored queued endpoint with a strictly earlier queue-entry
\* timestamp is left queued.
Eligible(e) == ~e.ignore /\ e.state = "queued" /\ e.next # "inactive"
QueueIsFifo ==
    [][(PromoteStep \/ JobStep) =>
         \A n \in Names, m \in Names :
            (/\ Registered(n) /\ Registered(m)
             /\ Before(n).state = "queued" /\ After(n).state \in MirrorClass
             /\ Eligible(Before(m)) /\ Eligible(After(m)))
            => LastTs(Before(m)) >= LastTs(Before(n))]_vars

\* C6: the reload that ends the scheduler worker's store-and-reload changes
\* nothing: no transition the main loop applied in the meantime is lost.
ReloadLosesNothing == [][ReloadStep => endpoints' = endpoints]_vars

\* C7: after the dispatcher handles a decider message, every registered,
\* non-ignored endpoint it names with plugin ncapture and valid = true is
\* known if the entry's behavior is normal and abnormal otherwise.
DeciderTook(entries, data) ==
    /\ DispatchStep
    /\ LET r == decider(endpoints, entries, data, now)
       IN r.ok /\ endpoints' = r.reg /\ store' = store_endpoints(r.reg)
DeciderClassifies ==
    [][\A entries \in EntryLists, data \in DataDicts :
         (ret_val(endpoints, entries) \/ data = <<>>) /\ DeciderTook(entries, data) =>
            \A k \in DOMAIN entries :
               LET m == entries[k] IN
               (/\ m.plugin = "ncapture" /\ m.valid
                /\ m.name \in NamesOf(endpoints) /\ ~Before(m.name).ignore)
               => After(m.name).state =
                     (IF m.behavior = "normal" THEN "known" ELSE "abnormal")]_vars

\* C8: after startup recovery every loaded endpoint is inactive.
AllInactiveAfterRecovery ==
    pcMain = "get" => \A i \in DOMAIN endpoints : endpoints[i].state = "inactive"

\* C9, as claimed: storing R and recovering yields the same endpoints, each
\* equal to the stored one except for its state (inactive) and its hint.
DocumentedHint(e) ==
    CASE e.state = "mirroring" -> "mirror"
      [] e.state = "reinvestigating" -> "reinvestigate"
      [] e.state = "queued" -> "queue"
      [] e.state \in {"known", "abnormal"} -> e.state
      [] OTHER -> e.next
TransitionAppendsHistory ==
    [][~ReloadStep /\ pcSched' # "append" /\ faults' = faults =>
         \A n \in Names :
            (Registered(n) /\ After(n).state # Before(n).state) =>
               /\ After(n).hist.last = <<After(n).state, now>>
               /\ \/ After(n).hist.len = Before(n).hist.len + 1
                  \/ DispatchStep /\ After(n).hist.len = Before(n).hist.len + 2]_vars

\* C11: every entry appended to an endpoint's history carries a timestamp
\* that is not earlier than that of the entry before it.
AppendStep(n) ==
    /\ Registered(n)
    /\ ~(pcSched = "reload" /\ pcSched' = "idle")
    /\ After(n).hist.len > Before(n).hist.len
HistoryNonDecreasing ==
    [][\A n \in Names : AppendStep(n) => LastTs(After(n)) >= LastTs(Before(n))]_vars

\* C12: with a controller configured, every endpoint that is mirroring or
\* reinvestigating while the process runs is one the controller has been
\* told to mirror since its filters were last cleared.
MirrorInstalled ==
    (sdnc /\ pcMain \notin {"boot", "exit", "down"}) =>
        \A i \in DOMAIN endpoints :
            endpoints[i].state \in MirrorClass => endpoints[i].name \in mirrored

\* C13: neither the main loop's promotion nor the periodic job moves an
\* ignored endpoint into mirroring or reinvestigating, and the endpoint stays
\* in the registry.
IgnoredNotInvestigated ==
    [][(PromoteStep \/ JobStep) =>
         \A i \in DOMAIN endpoints :
            (endpoints[i].ignore /\ endpoints[i].state \notin MirrorClass) =>
               /\ endpoints[i].name \in NamesOf(endpoints')
               /\ StateOf(endpoints', endpoints[i].name) \notin MirrorClass]_vars

\* C14: with a controller configured, a main-loop pass that finds an endpoint
\* mirroring or reinvestigating with a last history entry older than
\* 2 * reinvestigation_frequency leaves it unknown and unmirrored.
Stale(e) == e.state \in MirrorClass /\ now - LastTs(e) > 2 * reinvestigation_frequency
StaleTimesOut ==
    [][(sdnc /\ SweepStep /\ pcMain' = "get") =>
         \A n \in Names :
            (Registered(n) /\ Stale(Before(n))) =>
               After(n).state = "unknown" /\ n \notin mirrored']_vars

\* the reconciler step that took the poll result poll
KickTook(poll) ==
    /\ KickStep
    /\ LET r == find_new_machines(endpoints, poll, now)
       IN /\ mirrored' = Instruct(mirrored, r.issued, sdnc)
          /\ DOMAIN endpoints' = DOMAIN r.reg
          /\ \A i \in DOMAIN r.reg :
                /\ endpoints'[i].name = r.reg[i].name
                /\ endpoints'[i].state = r.reg[i].state
                /\ endpoints'[i].next = r.reg[i].next
                /\ endpoints'[i].active = r.reg[i].active
                /\ endpoints'[i].ip = r.reg[i].ip

\* C15: when the reconciler takes an observation with active = 0 for a
\* registered endpoint that is not inactive (here: and not ignored, the case
\* in which the code reconciles at all), the endpoint is inactive
\* afterwards; if it was mirroring or reinvestigating it is unmirrored and
\* its hint is mirror or reinvestigate, if it was known or abnormal its hint
\* is that state.
DeactivationHandled ==
    [][\A poll \in Polls : KickTook(poll) =>
         \A k \in DOMAIN poll :
            LET n == poll[k].name IN
            (/\ poll[k].active = 0 /\ n \in NamesOf(endpoints)
             /\ Before(n).state # "inactive" /\ ~Before(n).ignore)
            => /\ After(n).state = "inactive"
               /\ Before(n).state = "mirroring" =>
                     n \notin mirrored' /\ After(n).next = "mirror"
               /\ Before(n).state = "reinvestigating" =>
                     n \notin mirrored' /\ After(n).next = "reinvestigate"
               /\ Before(n).state \in {"known", "abnormal"} =>
                     After(n).next = Before(n).state]_vars

\* C16: when the reconciler takes a poll that omits a mirroring endpoint
\* (here: one that is not ignored), the endpoint is unmirrored, its hint is
\* mirror and it is inactive afterwards.
DisappearanceHandled ==
    [][\A poll \in Polls : KickTook(poll) =>
         \A n \in NamesOf(endpoints) :
            (/\ Before(n).state = "mirroring" /\ ~Before(n).ignore
             /\ \A k \in DOMAIN poll : poll[k].name # n)
            => /\ n \notin mirrored'
               /\ After(n).next = "mirror"
               /\ After(n).state = "inactive"]_vars

\* C17: when the reconciler takes an observation with active = 1 for an
\* inactive endpoint, the endpoint moves to its hint if the hint is known or
\* abnormal and to unknown otherwise; and a main-loop pass with a controller
\* leaves an endpoint that came back unknown with the hint mirror queued.
ReappearanceHandled ==
    [][/\ \A poll \in Polls : KickTook(poll) =>
            \A k \in DOMAIN poll :
               LET n == poll[k].name IN
               (poll[k].active = 1 /\ n \in NamesOf(endpoints)
                  /\ Before(n).state = "inactive")
               => After(n).state = (IF Before(n).next \in {"known", "abnormal"}
                                    THEN Before(n).next ELSE "unknown")
       /\ (sdnc /\ SweepStep /\ pcMain' = "get") =>
            \A n \in Names :
               (Registered(n) /\ Before(n).state = "unknown" /\ Before(n).next = "mirror")
               => After(n).state = "queued"]_vars

\* C18: without a controller every non-ignored endpoint is known after a
\* main-loop pass, and neither the main loop's promotion nor the periodic
\* job moves an endpoint into mirroring or reinvestigating.
NoControllerInert ==
    [][~sdnc =>
         /\ (SweepStep /\ pcMain' = "get") =>
               \A i \in DOMAIN endpoints' :
                  ~endpoints'[i].ignore => endpoints'[i].state = "known"
         /\ (PromoteStep \/ JobStep) =>
               \A n \in Names :
                  (Registered(n) /\ Before(n).state \notin MirrorClass)
                  => After(n).state \notin MirrorClass]_vars

\* C19: a failed controller poll leaves the registry as it was and the
\* scheduler worker ready for its next job.
PollFailureSurvived ==
    [][(pcSched = "idle" /\ faults' < faults) =>
         endpoints' = endpoints /\ pcSched' = "idle"]_vars

\* C20: a failure of store_endpoints, or of the reload that follows it, in
\* a reconciler tick leaves the registry as it was before the persistence
\* step.
PersistenceFailureKeepsRegistry ==
    [][(pcSched \in {"store", "reload"} /\ faults' < faults) =>
         endpoints' = endpoints]_vars

\* the dispatcher step that took action.change (n, ev)
ChangeTook(n, ev) ==
    /\ DispatchStep
    /\ pcMain' = "promote"
    /\ LET c == change(endpoints, n, ev, now)
       IN /\ endpoints' = get_stored_endpoints(store_endpoints(c.reg))
          /\ mirrored' = Instruct(mirrored, c.issued, sdnc)

\* the queued endpoints the promotion of this pass takes
Promoted ==
    LET q == queued_endpoints(endpoints)
        n == Min(investigation_budget(Count(endpoints, MirrorClass)), Len(q))
    IN {q[k] : k \in 1..n}

\* C21: when action.change names a trigger that is illegal from the
\* endpoint's state, or the promotion takes a queued endpoint whose hint is
\* no legal trigger, the endpoint is unknown afterwards and the main loop
\* goes on.
IllegalTransitionForcesUnknown ==
    [][/\ \A n \in Names, ev \in ChangeEvents :
            (/\ ChangeTook(n, ev) /\ n \in NamesOf(endpoints)
             /\ Trigger(Before(n).state, ev) = ERR)
            => After(n).state = "unknown" /\ pcMain' # "down"
       /\ PromoteStep =>
            \A i \in Promoted :
               Trigger(endpoints[i].state, endpoints[i].next) = ERR
               => /\ pcMain' # "down"
                  /\ StateOf(endpoints', endpoints[i].name) = "unknown"]_vars

\* C22: with a controller, every push event the main loop takes is appended
\* to the batch, no event leaves the batch before a controller poll has been
\* given it, and no poll is given an event that an earlier poll was given.
PushEventsDeliveredOnce ==
    [][sdnc =>
         /\ (pcMain = "get" /\ m_queue # <<>> /\ Head(m_queue) = "push"
               /\ m_queue' = Tail(m_queue))
            => Len(faucet_event') = Len(faucet_event) + 1
         /\ Len(faucet_event') < Len(faucet_event)
            => \A k \in DOMAIN faucet_event : faucet_event[k]
         /\ KickStep => \A k \in DOMAIN faucet_event : ~faucet_event[k]]_vars

\* C23: once the stop flag is set, the main loop and the scheduler worker
\* both terminate, and the main thread does not exit before shutdown() has
\* called clear_filters().
StopTerminates ==
    /\ stop ~> (pcMain = "down" /\ pcSched \in {"stopped", "dead"})
    /\ []((stop /\ pcMain = "down") => cleared)

\* C23 witness: a process stopped by SIGINT whose main loop and worker have
\* both ended
StoppedByTheFlag ==
    /\ stop /\ cleared
    /\ pcMain = "down"
    /\ pcSched = "stopped"
    /\ signals = 0

\* C24: when shutdown() has completed, no periodic job is left in the
\* scheduler's job list.
JobsCancelled == pcMain = "down" => jobs = <<>>

\* C25: the event queue never holds more than QueueCapacity messages.
QueueCapacity == 1
QueueBounded == Len(m_queue) <= QueueCapacity

\* C26: when the reconciler takes an observation without an ipv4 (ipv6)
\* value for an endpoint whose stored observation has one, the endpoint's
\* ipv4 (ipv6), subnet and rDNS are what they were.
MergePreserves ==
    [][\A poll \in IpPolls : KickTook(poll) =>
         \A k \in DOMAIN poll :
            LET n == poll[k].name IN
            n \in NamesOf(endpoints) =>
               \A f \in {"ipv4", "ipv6"} :
                  (ip_address(poll[k][f]) = None /\ Before(n).ip[f] # "")
                  => \A key \in {f} \cup MACHINE_IP_FIELDS[f] :
                        After(n).ip[key] = Before(n).ip[key]]_vars

\* C26 witness: an endpoint whose two addresses were looked up at different
\* polls, the later poll reporting only the ipv6 address
MergedAddresses ==
    /\ Len(endpoints) = 1
    /\ ~endpoints[1].ignore
    /\ endpoints[1].ip["ipv4"] = "10.0.0.9"
    /\ endpoints[1].ip["ipv4_rdns"] = "h1"
    /\ endpoints[1].ip["ipv6"] = "::1"
    /\ endpoints[1].ip["ipv6_rdns"] = "h2"
    /\ polls = 0

\* the dispatcher step that took the decider message (entries, data)
DeciderFed(entries, data) ==
    /\ DispatchStep
    /\ LET r == decider(endpoints, entries, data, now)
       IN IF r.ok
          THEN /\ endpoints' = get_stored_endpoints(store_endpoints(r.reg))
               /\ pcMain' = "promote"
          ELSE /\ endpoints' = r.reg
               /\ pcMain' = "down"

\* C27: after the dispatcher handles a decider message whose results name,
\* with valid = true, an endpoint that is not registered, that endpoint is
\* registered with active = 0, the source IP as its ipv4 and state unknown.
ExtrasRegistered ==
    [][\A entries \in EntryLists, data \in DataDicts :
         (ret_val(endpoints, entries) /\ DeciderFed(entries, data)) =>
            \A n \in DOMAIN data :
               (n \notin NamesOf(endpoints) /\ data[n].valid)
               => /\ n \in NamesOf(endpoints')
                  /\ StateOf(endpoints', n) = "unknown"
                  /\ After(n).active = 0
                  /\ After(n).ip["ipv4"] = data[n].source_ip]_vars

\* C28: the registry never holds two endpoints of one name; a reconciler
\* step leaves exactly one endpoint for every name that is registered or
\* reported, and an endpoint it creates is unknown with one history entry
\* and marks the ACL change.
Unique(reg) == \A i \in DOMAIN reg, j \in DOMAIN reg : reg[i].name = reg[j].name => i = j
NewEndpointOnce ==
    [][/\ Unique(endpoints')
       /\ \A poll \in Polls : KickTook(poll) =>
            /\ Len(endpoints') =
                  Cardinality(NamesOf(endpoints) \cup {poll[k].name : k \in DOMAIN poll})
            /\ \A k \in DOMAIN poll :
                  poll[k].name \notin NamesOf(endpoints)
                  => /\ poll[k].name \in NamesOf(endpoints')
                     /\ After(poll[k].name).state = "unknown"
                     /\ After(poll[k].name).hist.len = 1
                     /\ find_new_machines(endpoints, poll, now).change_acls]_vars

\* C28 witness: both names registered, the second while the first was
\* already there, each with its one history entry
TwoCreatedInTurn ==
    /\ Len(endpoints) = 2
    /\ polls = 0
    /\ pcSched = "store"
    /\ endpoints[1].hist.len = 1 /\ endpoints[2].hist.len = 1
    /\ endpoints[1].state = "unknown" /\ endpoints[2].state = "unknown"
    /\ store # <<>> /\ Len(store) = 1

\* C29: an endpoint (here: one that is not ignored) promoted out of queued,
\* by the main loop or by the periodic job, goes where its hint leads:
\* mirroring for mirror, reinvestigating for reinvestigate.
PromotedByHint ==
    [][(PromoteStep \/ JobStep) =>
         \A n \in Names :
            (/\ Registered(n) /\ Before(n).state = "queued" /\ ~Before(n).ignore
             /\ After(n).state \in MirrorClass)
            => After(n).state = Trigger("queued", Before(n).next)]_vars

\* C30: every endpoint the controller has been told to mirror is in the
\* registry and is mirroring or reinvestigating.
MirrorsBelong ==
    \A n \in mirrored : StateOf(endpoints, n) \in MirrorClass

\* C31: with a controller, an endpoint that is mirroring or reinvestigating
\* while the clock still has more than 2 * reinvestigation_frequency seconds
\* to run leaves that state, unless the main loop has ended.
Investigated(n) == StateOf(endpoints, n) \in MirrorClass
InvestigationEnds ==
    \A n \in Names :
       (sdnc /\ Investigated(n) /\ ticks > 2 * reinvestigation_frequency)
          ~> (~Investigated(n) \/ pcMain = "down")

\* C32: every endpoint the main loop's promotion step selects (not ignored,
\* queued, within the investigation budget) has the hint mirror or
\* reinvestigate.
PromotionHintDefined ==
    [][PromoteStep =>
         LET q == queued_endpoints(endpoints)
             budget == investigation_budget(Count(endpoints, MirrorClass))
         IN \A k \in 1..Min(budget, Len(q)) :
               endpoints[q[k]].next \in {"mirror", "reinvestigate"}]_vars

\* C33: once shutdown has called clear_filters(), no step tells the
\* controller to mirror an endpoint it was not mirroring.
NoMirrorAfterClear ==
    [][cleared => mirrored' \subseteq mirrored]_vars

====
